---- MODULE Spec2Model ----
(***************************************************************************)
(* Model of libdtfs: the property-buffer classifier, its two indexed       *)
(* decoders (libdtfs.c:33-133) and the traversal operations                *)
(* dtfs_check_path / dtfs_list_node / dtfs_prop_get (libdtfs.c:135-270)    *)
(* running against a backing store that an external actor may change.      *)
(*                                                                         *)
(* SpecBuf : the pure buffer functions applied to every bounded buffer.    *)
(* SpecFs  : the traversal calls, one store call per step.                 *)
(***************************************************************************)
EXTENDS Integers, Sequences, FiniteSets, TLC

(* ---- bounds ---- *)
MaxLen == 8          \* longest property buffer explored
MaxN == 3            \* largest element index passed to a decoder
MaxFile == 2         \* longest file content in the backing store

(* byte values explored: NUL, a printable byte ('A'), a non-printable byte
   (DEL); all below 128 so that a 32-bit word stays inside TLC's integers *)
ByteVals == {0, 65, 127}

(* enum of libdtfs.h *)
DTFS_PATH_ERROR == 0 - 1
DTFS_PATH_NODE == 0
DTFS_PATH_PROPERTY == 1
DTFS_PROP_SIMPLE == 0
DTFS_PROP_STRINGS == 1
DTFS_PROP_WORDS == 2
DTFS_PROP_BYTES == 3

VARIABLES
  data,       \* the byte buffer handed to the classifier / decoders
  hostLE,     \* TRUE when the host is little-endian
  bop,        \* last buffer operation: "none", "type", "word", "string"
  bn,         \* index n of the last decoder call
  bret,       \* return value of the last buffer operation
  outCount,   \* *count : <<>> when not written, <<v>> when written
  outWord,    \* *word  : <<>> when not written, <<v>> when written
  outStr,     \* *str   : <<>> when not written, <<offset>> when written
  oob         \* TRUE when the last call read a byte at offset >= len

bufvars == <<data, hostLE, bop, bn, bret, outCount, outWord, outStr, oob>>

VARIABLES
  fs,         \* the backing store: the entry /d/p and the directory /d
  call,       \* the library call made: op, base, path, cb (visitor not NULL)
  pc,         \* position of the call: "idle", a step of the call, "done"
  ret,        \* return value of the call, <<>> until it returns
  chk,        \* result of dtfs_check_path inside dtfs_prop_get, <<>> if not run
  str,        \* the joined path string of the call
  size,       \* s.st_size as read by dtfs_prop_get
  buf,        \* the malloc'ed data buffer
  stream,     \* names the open DIR stream has still to yield
  enumerated, \* names readdir has returned, in order
  opened,     \* directories opened by the call, in order
  nodeVisits, \* invocations of new_sub_node: [path, name]
  propVisits, \* invocations of prop_content: [path, null (data == NULL), data, len]
  res,        \* per resource: times acquired and times released
  failed,     \* steps of the call that failed
  attempts,   \* per store step: times attempted
  mutated,    \* the external actor changed the store during the call
  snap        \* the store as it was when the call was made

fsvars == <<fs, call, pc, ret, chk, str, size, buf, stream, enumerated, opened,
            nodeVisits, propVisits, res, failed, attempts, mutated, snap>>

vars == <<bufvars, fsvars>>

(* ---- libdtfs.c : buffer functions ---- *)

Buffers == UNION {[1..l -> ByteVals] : l \in 0..MaxLen}

\* *(d + i)
At(d, i) == d[i + 1]

\* isprint() in the C locale
isprint(c) == c >= 32 /\ c <= 126

RECURSIVE SkipPrintable(_, _, _)
\* inner while of is_printable_string
SkipPrintable(d, se, s) ==
  IF s < se /\ At(d, s) # 0 /\ isprint(At(d, s))
    THEN SkipPrintable(d, se, s + 1)
    ELSE s

RECURSIVE ScanRuns(_, _, _)
\* outer while of is_printable_string
ScanRuns(d, se, s) ==
  IF s < se
    THEN LET e == SkipPrintable(d, se, s)
         IN IF At(d, e) # 0 \/ e = s THEN 0 ELSE ScanRuns(d, se, e + 1)
    ELSE 1

is_printable_string(d, len) ==
  IF len = 0 THEN 0
  ELSE IF At(d, len - 1) # 0 THEN 0
  ELSE ScanRuns(d, len, 0)

RECURSIVE strlen(_, _)
\* strlen(d + s)
strlen(d, s) == IF At(d, s) = 0 THEN 0 ELSE 1 + strlen(d, s + 1)

RECURSIVE CountLoop(_, _, _, _)
\* do { s += strlen(s) + 1; *count += 1; } while (s < d + len)
CountLoop(d, len, s, c) ==
  LET s2 == s + strlen(d, s) + 1
      c2 == c + 1
  IN IF s2 < len THEN CountLoop(d, len, s2, c2) ELSE c2

\* mutant: the word-alignment test is tried before the string test
TypeBranch_wordsFirst(isStr, len) ==
  IF len % 4 = 0 THEN DTFS_PROP_WORDS
  ELSE IF isStr # 0 THEN DTFS_PROP_STRINGS
  ELSE DTFS_PROP_BYTES

\* the string / word priority of dtfs_get_prop_type
TypeBranch(isStr, len) ==
  IF isStr # 0 THEN DTFS_PROP_STRINGS
  ELSE IF len % 4 = 0 THEN DTFS_PROP_WORDS
  ELSE DTFS_PROP_BYTES

\* count is TRUE when the count pointer is not NULL
dtfs_get_prop_type(d, len, count) ==
  IF len = 0 THEN [ret |-> DTFS_PROP_SIMPLE, count |-> <<>>]
  ELSE LET t == TypeBranch(is_printable_string(d, len), len)
       IN IF t = DTFS_PROP_STRINGS
            THEN [ret |-> t, count |-> IF count THEN <<CountLoop(d, len, 0, 0)>> ELSE <<>>]
          ELSE IF t = DTFS_PROP_WORDS
            THEN [ret |-> t, count |-> IF count THEN <<len \div 4>> ELSE <<>>]
          ELSE [ret |-> t, count |-> IF count THEN <<len>> ELSE <<>>]

\* a 32-bit load of four bytes in memory order b0 b1 b2 b3
LoadWord(b0, b1, b2, b3, le) ==
  IF le THEN b0 + 256 * b1 + 65536 * b2 + 16777216 * b3
        ELSE 16777216 * b0 + 65536 * b1 + 256 * b2 + b3

\* mutant: the conversion to host order is left out
ntohl_none(x, le) == x

\* ntohl(): byte swap on a little-endian host, nothing on a big-endian one
ntohl(x, le) ==
  IF le THEN (x % 256) * 16777216 + ((x \div 256) % 256) * 65536
             + ((x \div 65536) % 256) * 256 + ((x \div 16777216) % 256)
        ELSE x

\* the four bytes a 32-bit load at byte offset i can yield.  len is a multiple
\* of 4 here, so the load is wholly inside the buffer or wholly outside it;
\* outside it the bytes are whatever lies behind the buffer
ReadWord(d, len, i) ==
  IF i + 3 < len THEN {<<At(d, i), At(d, i + 1), At(d, i + 2), At(d, i + 3)>>}
  ELSE {<<b, b, b, b>> : b \in ByteVals}

\* the range check of dtfs_word_get
WordRangeBad(n, len) == n * 4 > len

\* mutant: only the alignment of the length is checked
WordTypeBad_alignOnly(d, len) == len % 4 # 0

\* the type check of dtfs_word_get
WordTypeBad(d, len) == dtfs_get_prop_type(d, len, FALSE).ret # DTFS_PROP_WORDS

\* set of outcomes; word is TRUE when the word pointer is not NULL
dtfs_word_get(d, len, n, word, le) ==
  IF ~word THEN {[ret |-> 0 - 1, word |-> <<>>, oob |-> FALSE]}
  ELSE IF WordTypeBad(d, len) THEN {[ret |-> 0 - 1, word |-> <<>>, oob |-> FALSE]}
  ELSE IF WordRangeBad(n, len) THEN {[ret |-> 0 - 1, word |-> <<>>, oob |-> FALSE]}
  ELSE {[ret |-> 0,
         word |-> <<ntohl(LoadWord(b[1], b[2], b[3], b[4], le), le)>>,
         oob |-> 4 * n + 3 >= len] : b \in ReadWord(d, len, 4 * n)}

RECURSIVE StringLoop_late(_, _, _, _, _)
\* mutant: the index is compared after the pointer has advanced
StringLoop_late(d, len, n, s, cur) ==
  LET s2 == s + strlen(d, s) + 1
  IN IF s2 < len
       THEN IF cur = n THEN [ret |-> 0, str |-> <<s2>>]
            ELSE StringLoop_late(d, len, n, s2, cur + 1)
       ELSE [ret |-> 0 - 1, str |-> <<>>]

RECURSIVE StringLoop(_, _, _, _, _)
\* do { if (cur == n) ...; s += strlen(s) + 1; cur++; } while (s < d + len)
StringLoop(d, len, n, s, cur) ==
  IF cur = n THEN [ret |-> 0, str |-> <<s>>]
  ELSE LET s2 == s + strlen(d, s) + 1
       IN IF s2 < len THEN StringLoop(d, len, n, s2, cur + 1)
          ELSE [ret |-> 0 - 1, str |-> <<>>]

\* the type check of dtfs_string_get
StringTypeBad(d, len) == dtfs_get_prop_type(d, len, FALSE).ret # DTFS_PROP_STRINGS

\* strp is TRUE when the str pointer is not NULL
dtfs_string_get(d, len, n, strp) ==
  IF ~strp THEN [ret |-> 0 - 1, str |-> <<>>]
  ELSE IF StringTypeBad(d, len) THEN [ret |-> 0 - 1, str |-> <<>>]
  ELSE StringLoop(d, len, n, 0, 0)

(* ---- buffer calls ---- *)

\* the buffer state before any call, for buffers B and host byte orders E
InitBufIn(B, E) ==
  /\ data \in B
  /\ hostLE \in E
  /\ bop = "none"
  /\ bn = 0
  /\ bret = 0
  /\ outCount = <<>>
  /\ outWord = <<>>
  /\ outStr = <<>>
  /\ oob = FALSE

\* type = dtfs_get_prop_type(data, len, &count)  (dtfs_tree.c:33)
GetPropType ==
  LET r == dtfs_get_prop_type(data, Len(data), TRUE)
  IN /\ bop' = "type"
     /\ bret' = r.ret
     /\ outCount' = r.count
     /\ outWord' = <<>>
     /\ outStr' = <<>>
     /\ oob' = FALSE
     /\ UNCHANGED <<data, hostLE, bn>>
     /\ UNCHANGED fsvars

\* dtfs_word_get(data, len, n, &w)  (dtfs_tree.c:60)
WordGet ==
  \E n \in 0..MaxN :
    \E r \in dtfs_word_get(data, Len(data), n, TRUE, hostLE) :
      /\ bop' = "word"
      /\ bn' = n
      /\ bret' = r.ret
      /\ outWord' = r.word
      /\ oob' = r.oob
      /\ outCount' = <<>>
      /\ outStr' = <<>>
      /\ UNCHANGED <<data, hostLE>>
      /\ UNCHANGED fsvars

\* dtfs_string_get(data, len, n, &str)  (dtfs_tree.c:44)
StringGet ==
  \E n \in 0..MaxN :
    LET r == dtfs_string_get(data, Len(data), n, TRUE)
    IN /\ bop' = "string"
       /\ bn' = n
       /\ bret' = r.ret
       /\ outStr' = r.str
       /\ oob' = FALSE
       /\ outCount' = <<>>
       /\ outWord' = <<>>
       /\ UNCHANGED <<data, hostLE>>
       /\ UNCHANGED fsvars
      /\ UNCHANGED fsvars

InitBuf == InitBufIn(Buffers, BOOLEAN)

NextBuf == GetPropType \/ WordGet \/ StringGet

(* ---- backing store ---- *)

\* a C string is a sequence of characters; NULL is no string
NULL == <<"NULL">>

DirD == <<"/", "d">>
FileP == <<"/", "d", "/", "p">>

RECURSIVE Squeeze(_)
\* a run of '/' counts as one
Squeeze(p) ==
  IF Len(p) <= 1 THEN p
  ELSE IF p[1] = "/" /\ p[2] = "/" THEN Squeeze(Tail(p))
  ELSE <<p[1]>> \o Squeeze(Tail(p))

\* the path the store resolves a string to: repeated and trailing '/' dropped
Canon(p) ==
  LET q == Squeeze(p)
  IN IF Len(q) > 1 /\ q[Len(q)] = "/" THEN SubSeq(q, 1, Len(q) - 1) ELSE q

FileContents == UNION {[1..l -> {0, 65}] : l \in 0..MaxFile}

Kinds == {"none", "file", "dir", "other"}

\* names found in /d besides p, and names found in /d/p when it is a directory
NamesD == {<<".">>, <<".", ".">>, <<".", "h">>, <<"a">>}
NamesP == {<<".">>, <<".", ".">>, <<".", "g">>}

\* kind of the entry a string names
KindOf(f, p) ==
  IF Canon(p) = DirD THEN "dir"
  ELSE IF Canon(p) = FileP THEN f.kind
  ELSE "none"

\* stat(2)
stat(f, p) ==
  IF KindOf(f, p) = "none" THEN [ok |-> FALSE, kind |-> "none", size |-> 0]
  ELSE [ok |-> TRUE, kind |-> KindOf(f, p),
        size |-> IF KindOf(f, p) = "file" THEN Len(f.content) ELSE 0]

\* opendir(3): the names of the stream, or failure
opendir(f, p) ==
  IF Canon(p) = DirD /\ f.dread
    THEN [ok |-> TRUE,
          names |-> IF f.empty THEN {} ELSE NamesD \cup (IF f.kind # "none" THEN {<<"p">>} ELSE {})]
  ELSE IF Canon(p) = FileP /\ f.kind = "dir" /\ f.readable
    THEN [ok |-> TRUE, names |-> IF f.empty THEN {} ELSE NamesP]
  ELSE [ok |-> FALSE, names |-> {}]

\* fopen(3) for reading
fopen(f, p) == KindOf(f, p) # "none" /\ (Canon(p) = FileP => f.readable)

\* bytes fread(3) can deliver through the open handle: up to size of what the
\* file holds now; fewer on an I/O error
fread(f, p, sz) ==
  LET have == IF KindOf(f, p) = "dir" \/ Canon(p) # FileP THEN 0 ELSE Len(f.content)
      top == IF sz < have THEN sz ELSE have
  IN 0..top

(* ---- libdtfs.h : dtfs_concat_path (malloc branch) ---- *)

\* ok is FALSE when strdup/malloc returns NULL
dtfs_concat_path(base, path, ok) ==
  IF base = NULL \/ Len(base) < 1 THEN NULL
  ELSE IF ~ok THEN NULL
  ELSE IF path = NULL THEN base
  ELSE IF base[Len(base)] # "/" /\ (Len(path) = 0 \/ path[1] # "/")
         THEN base \o <<"/">> \o path
  ELSE base \o path

(* ---- resources ---- *)

Resources == {"chkstr", "str", "file", "buf", "dir"}

Acquire(r, x) == [r EXCEPT ![x].acq = @ + 1]
Release(r, x) == [r EXCEPT ![x].rel = @ + 1]
Live(r, x) == r[x].acq - r[x].rel

Steps == {"chk_stat", "stat", "fopen", "malloc", "fread", "opendir"}
Attempt(a, x) == [a EXCEPT ![x] = @ + 1]

\* a byte of the buffer that malloc returned and nothing has written
Uninit == 0 - 1

(* ---- libdtfs.c : traversal ---- *)

\* mapping of st_mode in dtfs_check_path
PathType(st) ==
  IF ~st.ok THEN 0 - 1
  ELSE IF st.kind = "dir" THEN DTFS_PATH_NODE
  ELSE IF st.kind = "file" THEN DTFS_PATH_PROPERTY
  ELSE DTFS_PATH_ERROR

\* mutant: only the entries "." and ".." are skipped
Hidden_dotsOnly(name) == name = <<".">> \/ name = <<".", ".">>

\* ep->d_name[0] == '.'
Hidden(name) == name[1] = "."

\* return value of dtfs_list_node after the opendir branch
ListNodeRet(openOk) == 0

\* mutant: a one-byte file is taken for an empty one
SizeBranch_gt1(sz) == sz > 1

\* if (size > 0)
SizeBranch(sz) == sz > 0

\* mutant: only a read that delivers nothing is taken for a failure
ShortRead_zeroOnly(got, sz) == got = 0 /\ sz # 0

\* fread(buf, 1, size, f) != size
ShortRead(got, sz) == got # sz

\* cleanup on each exit path of dtfs_prop_get
ExitStatFail(r) == Release(r, "str")
ExitOpenFail(r) == Release(r, "str")
ExitMallocFail(r) == Release(Release(r, "file"), "str")
\* mutant: the buffer is not freed after a truncated read
ExitShortRead_leak(r) == Release(Release(r, "file"), "str")

ExitShortRead(r) == Release(Release(Release(r, "file"), "buf"), "str")
ExitAfterVisit(r, sz) ==
  IF SizeBranch(sz) THEN Release(Release(r, "buf"), "str") ELSE Release(r, "str")

Bases == {NULL, <<>>, <<"/", "d">>, <<"/", "d", "/">>}
Paths == {NULL, <<"p">>, <<"/", "p">>, <<"q">>}

Stores ==
  [kind : Kinds, content : FileContents, readable : BOOLEAN, dread : BOOLEAN,
   empty : BOOLEAN]

\* the traversal state before any call, for a store of S
InitFsIn(S) ==
  /\ fs \in S
  /\ call = [op |-> "none", base |-> NULL, path |-> NULL, cb |-> FALSE]
  /\ pc = "idle"
  /\ ret = <<>>
  /\ chk = <<>>
  /\ str = NULL
  /\ size = 0
  /\ buf = <<>>
  /\ stream = {}
  /\ enumerated = <<>>
  /\ opened = <<>>
  /\ nodeVisits = <<>>
  /\ propVisits = <<>>
  /\ res = [x \in Resources |-> [acq |-> 0, rel |-> 0]]
  /\ failed = {}
  /\ attempts = [x \in Steps |-> 0]
  /\ mutated = FALSE
  /\ snap = fs

InitFs == InitFsIn({f \in Stores : f.kind # "file" => f.content = <<>>})

\* the call returns v
Return(v) == ret' = <<v>> /\ pc' = "done"

\* dtfs_list_node up to and including opendir  (libdtfs.c:166-194)
ListNode ==
  /\ pc = "idle"
  /\ \E base \in Bases, path \in Paths, cb \in BOOLEAN, ok \in BOOLEAN :
       LET s == dtfs_concat_path(base, path, ok)
           d == opendir(fs, s)
       IN /\ call' = [op |-> "list", base |-> base, path |-> path, cb |-> cb]
          /\ snap' = fs
          /\ IF ~cb
               THEN /\ Return(0)
                    /\ UNCHANGED <<str, stream, opened, res, failed, attempts>>
             ELSE IF base = NULL
               THEN /\ Return(0 - 1)
                    /\ UNCHANGED <<str, stream, opened, res, failed, attempts>>
             ELSE IF s = NULL
               THEN /\ Return(0 - 1)
                    /\ failed' = failed \cup {"concat"}
                    /\ UNCHANGED <<str, stream, opened, res, attempts>>
             ELSE IF d.ok
               THEN /\ str' = s
                    /\ stream' = d.names
                    /\ opened' = Append(opened, Canon(s))
                    /\ res' = Acquire(Acquire(res, "str"), "dir")
                    /\ attempts' = Attempt(attempts, "opendir")
                    /\ pc' = "readdir"
                    /\ UNCHANGED <<ret, failed>>
             ELSE /\ str' = s
                  /\ res' = Release(Acquire(res, "str"), "str")
                  /\ attempts' = Attempt(attempts, "opendir")
                  /\ failed' = failed \cup {"opendir"}
                  /\ Return(ListNodeRet(FALSE))
                  /\ UNCHANGED <<stream, opened>>
  /\ UNCHANGED bufvars
  /\ UNCHANGED <<fs, chk, size, buf, enumerated, nodeVisits, propVisits, mutated>>

\* one readdir that yields an entry, and the visitor call for it  (187-190)
ListReaddir ==
  /\ pc = "readdir"
  /\ \E name \in stream :
       /\ stream' = stream \ {name}
       /\ enumerated' = Append(enumerated, name)
       /\ nodeVisits' = IF ~Hidden(name)
                          THEN Append(nodeVisits, [path |-> str, name |-> name])
                          ELSE nodeVisits
  /\ UNCHANGED bufvars
  /\ UNCHANGED <<fs, call, pc, ret, chk, str, size, buf, opened, propVisits, res,
                 failed, attempts, mutated, snap>>

\* readdir yields NULL: closedir, free(str), return 0  (191-198)
ListEnd ==
  /\ pc = "readdir"
  /\ stream = {}
  /\ res' = Release(Release(res, "dir"), "str")
  /\ Return(ListNodeRet(TRUE))
  /\ UNCHANGED bufvars
  /\ UNCHANGED <<fs, call, chk, str, size, buf, stream, enumerated, opened,
                 nodeVisits, propVisits, failed, attempts, mutated, snap>>

\* dtfs_prop_get up to the stat of dtfs_check_path  (202-211, 140-147)
PropGet ==
  /\ pc = "idle"
  /\ \E base \in Bases, path \in Paths, cb \in BOOLEAN, ok \in BOOLEAN :
       LET s == dtfs_concat_path(base, path, ok)
       IN /\ call' = [op |-> "prop", base |-> base, path |-> path, cb |-> cb]
          /\ snap' = fs
          /\ IF ~cb
               THEN /\ Return(0)
                    /\ UNCHANGED <<chk, str, res, failed>>
             ELSE IF base = NULL
               THEN /\ chk' = <<0 - 1>>
                    /\ Return(0 - 1)
                    /\ UNCHANGED <<str, res, failed>>
             ELSE IF s = NULL
               THEN /\ chk' = <<0 - 1>>
                    /\ failed' = failed \cup {"concat"}
                    /\ Return(0 - 1)
                    /\ UNCHANGED <<str, res>>
             ELSE /\ str' = s
                  /\ res' = Acquire(res, "chkstr")
                  /\ pc' = "chk_stat"
                  /\ UNCHANGED <<ret, chk, failed>>
  /\ UNCHANGED bufvars
  /\ UNCHANGED <<fs, size, buf, stream, enumerated, opened, nodeVisits, propVisits,
                 attempts, mutated>>

\* stat of dtfs_check_path, its result, and the second concat  (149-163, 211-221)
CheckStat ==
  /\ pc = "chk_stat"
  /\ \E ok \in BOOLEAN :
       LET t == PathType(stat(fs, str))
           s == dtfs_concat_path(call.base, call.path, ok)
       IN /\ attempts' = Attempt(attempts, "chk_stat")
          /\ chk' = <<t>>
          /\ IF t # DTFS_PATH_PROPERTY
               THEN /\ res' = Release(res, "chkstr")
                    /\ Return(0 - 1)
                    /\ UNCHANGED <<str, failed>>
             ELSE IF s = NULL
               THEN /\ res' = Release(res, "chkstr")
                    /\ failed' = failed \cup {"concat"}
                    /\ Return(0 - 1)
                    /\ UNCHANGED str
             ELSE /\ res' = Acquire(Release(res, "chkstr"), "str")
                  /\ str' = s
                  /\ pc' = "stat"
                  /\ UNCHANGED <<ret, failed>>
  /\ UNCHANGED bufvars
  /\ UNCHANGED <<fs, call, size, buf, stream, enumerated, opened, nodeVisits,
                 propVisits, mutated, snap>>

\* stat of dtfs_prop_get; the visitor is entered here for an empty file  (223-230, 265)
PropStat ==
  /\ pc = "stat"
  /\ LET st == stat(fs, str)
     IN /\ attempts' = Attempt(attempts, "stat")
        /\ IF ~st.ok
             THEN /\ res' = ExitStatFail(res)
                  /\ failed' = failed \cup {"stat"}
                  /\ Return(0 - 1)
                  /\ UNCHANGED <<size, propVisits>>
           ELSE IF SizeBranch(st.size)
             THEN /\ size' = st.size
                  /\ pc' = "fopen"
                  /\ UNCHANGED <<ret, res, failed, propVisits>>
           ELSE /\ size' = st.size
                /\ propVisits' = Append(propVisits, [path |-> str, null |-> TRUE, data |-> <<>>, len |-> 0])
                /\ pc' = "in_visitor"
                /\ UNCHANGED <<ret, res, failed>>
  /\ UNCHANGED bufvars
  /\ UNCHANGED <<fs, call, chk, str, buf, stream, enumerated, opened, nodeVisits,
                 mutated, snap>>

\* fopen  (235-240)
PropOpen ==
  /\ pc = "fopen"
  /\ attempts' = Attempt(attempts, "fopen")
  /\ IF ~fopen(fs, str)
       THEN /\ res' = ExitOpenFail(res)
            /\ failed' = failed \cup {"fopen"}
            /\ Return(0 - 1)
     ELSE /\ res' = Acquire(res, "file")
          /\ pc' = "malloc"
          /\ UNCHANGED <<ret, failed>>
  /\ UNCHANGED bufvars
  /\ UNCHANGED <<fs, call, chk, str, size, buf, stream, enumerated, opened,
                 nodeVisits, propVisits, mutated, snap>>

\* malloc(size)  (242-248)
PropMalloc ==
  /\ pc = "malloc"
  /\ attempts' = Attempt(attempts, "malloc")
  /\ \E ok \in BOOLEAN :
       IF ~ok
         THEN /\ res' = ExitMallocFail(res)
              /\ failed' = failed \cup {"malloc"}
              /\ Return(0 - 1)
              /\ UNCHANGED buf
       ELSE /\ res' = Acquire(res, "buf")
            /\ buf' = [i \in 1..size |-> Uninit]
            /\ pc' = "read"
            /\ UNCHANGED <<ret, failed>>
  /\ UNCHANGED bufvars
  /\ UNCHANGED <<fs, call, chk, str, size, stream, enumerated, opened, nodeVisits,
                 propVisits, mutated, snap>>

\* fread, fclose, and entry into the visitor  (250-260)
PropRead ==
  /\ pc = "read"
  /\ attempts' = Attempt(attempts, "fread")
  /\ \E got \in fread(fs, str, size) :
       /\ buf' = [i \in 1..size |-> IF i <= got THEN fs.content[i] ELSE Uninit]
       /\ failed' = IF got < size THEN failed \cup {"fread"} ELSE failed
       /\ IF ShortRead(got, size)
            THEN /\ res' = ExitShortRead(res)
                 /\ Return(0 - 1)
                 /\ UNCHANGED propVisits
          ELSE /\ res' = Release(res, "file")
               /\ propVisits' = Append(propVisits, [path |-> str, null |-> FALSE, data |-> buf', len |-> size])
               /\ pc' = "in_visitor"
               /\ UNCHANGED ret
  /\ UNCHANGED bufvars
  /\ UNCHANGED <<fs, call, chk, str, size, stream, enumerated, opened, nodeVisits,
                 mutated, snap>>

\* the visitor returns: free(buf), free(str), return 0  (262-269)
PropVisitorReturn ==
  /\ pc = "in_visitor"
  /\ res' = ExitAfterVisit(res, size)
  /\ Return(0)
  /\ UNCHANGED bufvars
  /\ UNCHANGED <<fs, call, chk, str, size, buf, stream, enumerated, opened,
                 nodeVisits, propVisits, failed, attempts, mutated, snap>>

Running == pc \notin {"idle", "done"}

\* the external actor removes the entry /d/p; an open handle keeps its bytes
ExtRemove ==
  /\ fs.kind = "file"
  /\ fs' = [fs EXCEPT !.kind = "none"]
  /\ mutated' = (mutated \/ Running)
  /\ UNCHANGED bufvars
  /\ UNCHANGED <<call, pc, ret, chk, str, size, buf, stream, enumerated, opened,
                 nodeVisits, propVisits, res, failed, attempts, snap>>

\* the external actor truncates the file /d/p
ExtShrink ==
  /\ fs.kind = "file"
  /\ \E k \in 0..(Len(fs.content) - 1) :
       fs' = [fs EXCEPT !.content = SubSeq(fs.content, 1, k)]
  /\ mutated' = (mutated \/ Running)
  /\ UNCHANGED bufvars
  /\ UNCHANGED <<call, pc, ret, chk, str, size, buf, stream, enumerated, opened,
                 nodeVisits, propVisits, res, failed, attempts, snap>>

NextFs ==
  \/ ListNode \/ ListReaddir \/ ListEnd
  \/ PropGet \/ CheckStat \/ PropStat \/ PropOpen \/ PropMalloc \/ PropRead
  \/ PropVisitorReturn
  \/ ExtRemove \/ ExtShrink

\* a store for the runs that make no traversal call
QuietStore ==
  [kind |-> "none", content |-> <<>>, readable |-> TRUE, dread |-> TRUE, empty |-> FALSE]

InitBufOnly == InitBuf /\ InitFsIn({QuietStore})

InitFsOnly == InitFs /\ InitBufIn({<<>>}, {TRUE})

\* the buffer functions on every bounded buffer; no traversal call is made
SpecBuf == InitBufOnly /\ [][NextBuf]_vars

\* the traversal calls against every bounded store; the buffer state is fixed
SpecFs == InitFsOnly /\ [][NextFs]_vars

(* ---- reference definitions the buffer claims are stated with ---- *)

\* the buffer is exactly tiled by non-empty printable runs, each followed by one NUL
RefIsStrings(d) ==
  /\ Len(d) > 0
  /\ d[Len(d)] = 0
  /\ \A i \in 1..Len(d) :
       /\ d[i] # 0 => (d[i] >= 32 /\ d[i] <= 126)
       /\ d[i] = 0 => (i > 1 /\ d[i - 1] # 0)

RefNuls(d) == {i \in 1..Len(d) : d[i] = 0}

RefClassify(d) ==
  IF Len(d) = 0 THEN [ret |-> DTFS_PROP_SIMPLE, count |-> <<>>]
  ELSE IF RefIsStrings(d) THEN [ret |-> DTFS_PROP_STRINGS, count |-> <<Cardinality(RefNuls(d))>>]
  ELSE IF Len(d) % 4 = 0 THEN [ret |-> DTFS_PROP_WORDS, count |-> <<Len(d) \div 4>>]
  ELSE [ret |-> DTFS_PROP_BYTES, count |-> <<Len(d)>>]

\* offset of the first byte of run n: 0, or just behind the n-th NUL
RefRunStart(d, n) ==
  IF n = 0 THEN 0
  ELSE CHOOSE i \in RefNuls(d) : Cardinality({j \in RefNuls(d) : j <= i}) = n

\* big-endian value of the four bytes at offset 4n
RefBigEndian(d, n) ==
  d[4 * n + 1] * 16777216 + d[4 * n + 2] * 65536 + d[4 * n + 3] * 256 + d[4 * n + 4]

(* C1: dtfs_get_prop_type(b, l, &count) equals the first-match reference
   classifier (empty -> Simple with count unwritten; well-formed string list
   -> Strings with the number of runs, also when l is a multiple of 4;
   l % 4 = 0 -> Words with l / 4; otherwise Bytes with l); the single-NUL
   buffer is Bytes with count 1.  The call may be repeated on the same
   buffer any number of times: every one of them ends in a state this
   holds of, so all give the same tag and count. *)
C1_Classifier ==
  bop = "type" =>
    /\ bret = RefClassify(data).ret
    /\ outCount = RefClassify(data).count
    /\ data = <<0>> => (bret = DTFS_PROP_BYTES /\ outCount = <<1>>)

C1_Witness ==
  /\ bop = "type"
  /\ data = <<65, 0, 65, 0>>
  /\ bret = DTFS_PROP_STRINGS
  /\ outCount = <<2>>

(* C2: on a Words buffer dtfs_word_get returns -1, writes no word and reads
   no byte at offset >= length whenever (n+1)*4 > length. *)
C2_WordIndexRejected ==
  (bop = "word" /\ RefClassify(data).ret = DTFS_PROP_WORDS /\ (bn + 1) * 4 > Len(data)) =>
    (bret = 0 - 1 /\ outWord = <<>> /\ ~oob)

(* C3: on a Strings buffer with count c, dtfs_string_get succeeds for n < c
   with a view starting at the first byte of run n, inside the buffer, and
   returns -1 without writing a view for n >= c. *)
C3_StringIndex ==
  (bop = "string" /\ RefClassify(data).ret = DTFS_PROP_STRINGS) =>
    LET c == Cardinality(RefNuls(data))
    IN /\ bn < c => /\ bret = 0
                    /\ outStr = <<RefRunStart(data, bn)>>
                    /\ outStr[1] < Len(data)
       /\ bn >= c => (bret = 0 - 1 /\ outStr = <<>>)

C3_Witness ==
  /\ bop = "string"
  /\ data = <<65, 0, 65, 65, 0>>
  /\ bn = 1
  /\ bret = 0
  /\ outStr = <<2>>

(* C4: on a Words buffer and n < length/4, dtfs_word_get returns 0 and
   yields the big-endian value of the four bytes at offset 4n, on either
   host byte order, reading inside the buffer only. *)
C4_WordValue ==
  (bop = "word" /\ RefClassify(data).ret = DTFS_PROP_WORDS /\ bn < Len(data) \div 4) =>
    (bret = 0 /\ outWord = <<RefBigEndian(data, bn)>> /\ ~oob)

C4_Witness ==
  /\ bop = "word"
  /\ hostLE
  /\ data = <<0, 0, 0, 65, 0, 0, 127, 65>>
  /\ bn = 1
  /\ bret = 0
  /\ outWord = <<32577>>

(* C5: dtfs_word_get returns -1 on every buffer that is not Words, and
   dtfs_string_get returns -1 on every buffer that is not Strings, for every
   index, leaving the output location unwritten. *)
C5_WrongShape ==
  /\ (bop = "word" /\ RefClassify(data).ret # DTFS_PROP_WORDS) =>
       (bret = 0 - 1 /\ outWord = <<>>)
  /\ (bop = "string" /\ RefClassify(data).ret # DTFS_PROP_STRINGS) =>
       (bret = 0 - 1 /\ outStr = <<>>)

C5_Witness ==
  /\ bop = "word"
  /\ data = <<65, 0, 65, 0>>
  /\ bn = 0
  /\ bret = 0 - 1
  /\ outWord = <<>>

(* ---- reference definitions the traversal claims are stated with ---- *)

NotDot(name) == name[1] # "."

\* the call is a dtfs_prop_get with a visitor, and has returned
PropDone == pc = "done" /\ call.op = "prop" /\ call.cb

(* C6: dtfs_list_node with a visitor returns -1 and never invokes the
   visitor when the joined path cannot be opened as a directory. *)
C6_ListFailsOnOpenError ==
  (pc = "done" /\ call.op = "list" /\ call.cb /\ "opendir" \in failed) =>
    (ret = <<0 - 1>> /\ nodeVisits = <<>>)

(* C7: when the joined path is a regular file that stays unchanged during
   the call and every step succeeds, dtfs_prop_get returns 0 after exactly
   one visitor invocation, with all the file's bytes in order and
   length = file size, or with a null buffer and length 0 for an empty file. *)
C7_PropDelivered ==
  (PropDone /\ str # NULL /\ KindOf(snap, str) = "file" /\ ~mutated /\ failed = {}) =>
    /\ ret = <<0>>
    /\ Len(propVisits) = 1
    /\ propVisits[1].path = str
    /\ propVisits[1].len = Len(snap.content)
    /\ propVisits[1].data = snap.content
    /\ propVisits[1].null = (Len(snap.content) = 0)

C7_Witness ==
  /\ PropDone
  /\ ~mutated
  /\ failed = {}
  /\ snap.content = <<65, 0>>
  /\ ret = <<0>>
  /\ propVisits = <<[path |-> FileP, null |-> FALSE, data |-> <<65, 0>>, len |-> 2]>>

(* C8: once the joined path has opened as a directory, the visitor has been
   invoked exactly once, in order, for each entry enumerated so far whose
   name does not begin with '.', always with the joined path, and for no
   other; at return every entry of that directory has been enumerated once,
   the result is 0, and no other directory was opened. *)
C8_ListVisits ==
  (call.op = "list" /\ opened # <<>>) =>
    LET shown == SelectSeq(enumerated, NotDot)
    IN /\ Len(nodeVisits) = Len(shown)
       /\ \A i \in 1..Len(shown) : nodeVisits[i] = [path |-> str, name |-> shown[i]]
       /\ opened = <<Canon(str)>>
       /\ pc = "done" =>
            /\ ret = <<0>>
            /\ Len(enumerated) = Cardinality(opendir(snap, str).names)
            /\ {enumerated[i] : i \in 1..Len(enumerated)} = opendir(snap, str).names

C8_Witness ==
  /\ call.op = "list"
  /\ pc = "done"
  /\ Len(enumerated) = 5
  /\ Len(nodeVisits) = 2
  /\ ret = <<0>>

(* C9: dtfs_prop_get with a visitor returns -1 without invoking the visitor
   whenever its own path check does not yield Property or a later step
   fails, under every interleaving with the external actor; the visitor is
   never handed a buffer with unfilled bytes and no step is attempted twice. *)
C9_PropFails ==
  /\ (PropDone /\ (chk # <<DTFS_PATH_PROPERTY>> \/ failed # {})) =>
       (ret = <<0 - 1>> /\ propVisits = <<>>)
  /\ \A i \in 1..Len(propVisits) :
       /\ Len(propVisits[i].data) = propVisits[i].len
       /\ \A j \in 1..Len(propVisits[i].data) : propVisits[i].data[j] # Uninit
  /\ \A x \in Steps : attempts[x] <= 1

C9_Witness ==
  /\ PropDone
  /\ mutated
  /\ chk = <<DTFS_PATH_PROPERTY>>
  /\ size = 2
  /\ failed = {"fread"}
  /\ buf = <<65, Uninit>>
  /\ ret = <<0 - 1>>
  /\ propVisits = <<>>

(* C10: no resource of dtfs_prop_get is released more often than acquired,
   all of them are released when the call has returned, and the path string
   and the data buffer handed to the visitor are alive while it runs. *)
C10_Resources ==
  call.op = "prop" =>
    /\ \A x \in Resources :
         /\ res[x].rel <= res[x].acq
         /\ res[x].acq <= 1
         /\ pc = "done" => res[x].rel = res[x].acq
    /\ pc = "in_visitor" =>
         /\ Live(res, "str") = 1
         /\ ~propVisits[Len(propVisits)].null => Live(res, "buf") = 1

C10_Witness ==
  /\ PropDone
  /\ failed = {"fread"}
  /\ res["buf"] = [acq |-> 1, rel |-> 1]
  /\ res["file"] = [acq |-> 1, rel |-> 1]
  /\ res["str"] = [acq |-> 1, rel |-> 1]
  /\ res["chkstr"] = [acq |-> 1, rel |-> 1]
====
